---- MODULE Spec2Model ----
(***************************************************************************)
(* Model of the quest answer-submission pipeline of nara-cli:              *)
(*   - the field codec and proof transcoder of the quest SDK               *)
(*     (src/src/constants.ts, "Quest SDK" part), checked under SpecCodec;  *)
(*   - the `quest answer` command (src/src/cli/commands/swap.ts, three     *)
(*     revisions of the quest command), checked under Spec;                *)
(*   - pollConfirmation of the transaction helpers (src/unnamed/part_003,  *)
(*     src/examples/utils.ts), checked under SpecPoll;                     *)
(*   - silentProve, the console suppression around the prover, with        *)
(*     several calls in flight in one process, checked under SpecProve;    *)
(*   - two `quest answer` runs of one wallet at the same time in a round   *)
(*     that stays open, checked under SpecRace.                            *)
(*                                                                         *)
(* Numbers are scaled: a field value is FieldBytes bytes wide instead of   *)
(* 32, and the field prime keeps the leading bytes and the last byte of    *)
(* the BN254 prime of the source.  Bytes are 0..255, hex strings are       *)
(* sequences of one-character strings, decimal strings handed to the       *)
(* prover are represented by the number they spell.                        *)
(***************************************************************************)
EXTENDS Integers, Sequences, FiniteSets, TLC

VARIABLES
  cin,      \* codec: the input of one call (a witness, a raw proof, an error)
  cout,     \* codec: what the call produced, Null before it ran
  rev,      \* which revision of the quest command runs (1, 2 or 3)
  now,      \* wall clock, unix seconds (Date.now() / 1000, floored)
  pool,     \* the on-chain Pool account of the quest program
  winnerRecord, \* the caller's WinnerRecord account: its round, 0 when absent
  attempts, \* how many `quest answer` runs have been started
  att,      \* per process: the locals and position of its running attempt
  clockMs,  \* confirmation polling: Date.now(), in clock steps
  txStatus, \* confirmation polling: the signature's status on the cluster
  poll,     \* confirmation polling: the locals and position of pollConfirmation
  console,  \* silentProve: the process-wide console.log and console.error
  prover    \* silentProve: per concurrent call, its position and saved functions

Null == [none |-> TRUE]

\* ------------------------------------------------------------------ bounds
\* Width in bytes of one encoded field value (32 in the source).
FieldBytes == 2

\* Last second of the clock.
MaxTime == 2

\* Last round the authority opens.
MaxRound == 2

\* Number of `quest answer` runs in one behaviour.
MaxAttempts == 2

\* Last step of the polling clock.
MaxClock == 6

\* Number of generateProof calls in flight in one process.
NumCalls == 3

\* ----------------------------------------------------- strings and buffers
HexDigits == <<"0", "1", "2", "3", "4", "5", "6", "7",
               "8", "9", "a", "b", "c", "d", "e", "f">>

IsHexChar(c) == \E d \in 1..16 : HexDigits[d] = c

HexVal(c) == (CHOOSE d \in 1..16 : HexDigits[d] = c) - 1

RECURSIVE NatToHex(_)
\* BigInt.prototype.toString(16) of a non-negative value: no leading zeros.
NatToHex(v) ==
  IF v < 16 THEN <<HexDigits[v + 1]>>
  ELSE Append(NatToHex(v \div 16), HexDigits[(v % 16) + 1])

\* BigInt.prototype.toString(16): a negative value prints with a minus sign.
BigIntToString16(v) == IF v < 0 THEN <<"-">> \o NatToHex(0 - v) ELSE NatToHex(v)

\* String.prototype.padStart(n, c): pads on the left, never truncates.
PadStart(s, n, c) ==
  IF Len(s) >= n THEN s ELSE [i \in 1..(n - Len(s)) |-> c] \o s

RECURSIVE BufferFromHex(_)
\* Buffer.from(s, "hex"): decodes pairs of hex characters, stops at the first
\* pair that is not hex, drops a trailing single character.
BufferFromHex(s) ==
  IF Len(s) < 2 THEN <<>>
  ELSE IF ~(IsHexChar(s[1]) /\ IsHexChar(s[2])) THEN <<>>
  ELSE <<16 * HexVal(s[1]) + HexVal(s[2])>> \o BufferFromHex(SubSeq(s, 3, Len(s)))

RECURSIVE BufferToHex(_)
\* buf.toString("hex"): two lowercase hex characters per byte.
BufferToHex(b) ==
  IF b = <<>> THEN <<>>
  ELSE <<HexDigits[(b[1] \div 16) + 1], HexDigits[(b[1] % 16) + 1]>>
         \o BufferToHex(Tail(b))

RECURSIVE HexToNat(_)
HexToNat(h) ==
  IF h = <<>> THEN 0
  ELSE 16 * HexToNat(SubSeq(h, 1, Len(h) - 1)) + HexVal(h[Len(h)])

\* BigInt("0x" + h): a SyntaxError when no digit follows the prefix.
BigIntFromHex(h) ==
  IF h = <<>> THEN [ok |-> FALSE, error |-> "SyntaxError"]
  ELSE [ok |-> TRUE, val |-> HexToNat(h)]

\* ------------------------------------------------------------ ZK constants
\* The 32 bytes of BN254_FIELD, big-endian.
BN254_FIELD_BE ==
  <<48, 100, 78, 114, 225, 49, 160, 41, 184, 80, 69, 182, 129, 129, 88, 93,
    151, 129, 106, 145, 104, 113, 202, 141, 60, 32, 140, 22, 216, 124, 253, 71>>

\* The prime at the model's width: the leading FieldBytes-1 bytes and the
\* last byte of the source's constant (so it stays odd and below 2^(8w-2)).
BN254_FIELD ==
  HexToNat(BufferToHex(SubSeq(BN254_FIELD_BE, 1, FieldBytes - 1)
                       \o <<BN254_FIELD_BE[32]>>))

\* ------------------------------------------------------------ ZK utilities
\* (mutant) no left padding.
toBigEndian32NoPad(v) == BufferFromHex(BigIntToString16(v))

toBigEndian32(v) ==
  BufferFromHex(PadStart(BigIntToString16(v), 2 * FieldBytes, "0"))

\* answer: the UTF-8 bytes of the answer string.
answerToField(answer) ==
  LET n == BigIntFromHex(BufferToHex(answer))
  IN  IF n.ok THEN [ok |-> TRUE, val |-> n.val % BN254_FIELD] ELSE n

hashBytesToFieldStr(hashBytes) ==
  LET n == BigIntFromHex(BufferToHex(hashBytes))
  IN  IF n.ok THEN [ok |-> TRUE, val |-> n.val] ELSE n

\* (mutant) the two halves change places.
pubkeyToCircuitInputsSwapped(pubkey) ==
  LET half == FieldBytes \div 2
  IN  [lo |-> BigIntFromHex(BufferToHex(SubSeq(pubkey, 1, half))).val,
       hi |-> BigIntFromHex(BufferToHex(SubSeq(pubkey, half + 1, FieldBytes))).val]

\* pubkey.toBuffer() split at the middle (16 of 32 bytes in the source).
pubkeyToCircuitInputs(pubkey) ==
  LET half == FieldBytes \div 2
  IN  [lo |-> BigIntFromHex(BufferToHex(SubSeq(pubkey, half + 1, FieldBytes))).val,
       hi |-> BigIntFromHex(BufferToHex(SubSeq(pubkey, 1, half))).val]

negY(y) == toBigEndian32(BN254_FIELD - y)

be(s) == toBigEndian32(s)

\* (mutant) B's components in the prover's order.
proofToSolanaUnswapped(proof) ==
  [proofA |-> be(proof.pi_a[1]) \o negY(proof.pi_a[2]),
   proofB |-> be(proof.pi_b[1][1]) \o be(proof.pi_b[1][2])
              \o be(proof.pi_b[2][1]) \o be(proof.pi_b[2][2]),
   proofC |-> be(proof.pi_c[1]) \o be(proof.pi_c[2])]

\* proof.pi_a[0] of the source is pi_a[1] here (sequences start at 1).
proofToSolana(proof) ==
  [proofA |-> be(proof.pi_a[1]) \o negY(proof.pi_a[2]),
   proofB |-> be(proof.pi_b[1][2]) \o be(proof.pi_b[1][1])
              \o be(proof.pi_b[2][2]) \o be(proof.pi_b[2][1]),
   proofC |-> be(proof.pi_c[1]) \o be(proof.pi_c[2])]

\* (mutant) the hex encoding carries the raw A.y.
proofToHexRawY(proof) ==
  [proofA |-> BufferToHex(be(proof.pi_a[1]) \o be(proof.pi_a[2])),
   proofB |-> BufferToHex(be(proof.pi_b[1][2]) \o be(proof.pi_b[1][1])
                          \o be(proof.pi_b[2][2]) \o be(proof.pi_b[2][1])),
   proofC |-> BufferToHex(be(proof.pi_c[1]) \o be(proof.pi_c[2]))]

proofToHex(proof) ==
  [proofA |-> BufferToHex(be(proof.pi_a[1]) \o negY(proof.pi_a[2])),
   proofB |-> BufferToHex(be(proof.pi_b[1][2]) \o be(proof.pi_b[1][1])
                          \o be(proof.pi_b[2][2]) \o be(proof.pi_b[2][1])),
   proofC |-> BufferToHex(be(proof.pi_c[1]) \o be(proof.pi_c[2]))]

\* ------------------------------------------------------- codec: the inputs
\* Bytes of answers (UTF-8 of ASCII text), digests and public keys.
AnswerBytes == {0, 52, 122}

DigestBytes == {0, 48, 255}

PubkeyBytes == {0, 1, 255}

RECURSIVE SeqsUpTo(_, _)
\* All sequences over S of length at most n.
SeqsUpTo(S, n) ==
  IF n = 0 THEN {<<>>}
  ELSE LET shorter == SeqsUpTo(S, n - 1)
       IN  shorter \cup {Append(q, x) : q \in shorter, x \in S}

SeqsOfLen(S, n) == {q \in SeqsUpTo(S, n) : Len(q) = n}

\* Answers run from the empty string to one byte more than a field value.
Answers == SeqsUpTo(AnswerBytes, FieldBytes + 1)

Digests == SeqsOfLen(DigestBytes, FieldBytes)

Pubkeys == SeqsOfLen(PubkeyBytes, FieldBytes)

\* Raw proofs as the prover returns them: every coordinate a field element.
Proofs ==
  {[pi_a |-> <<ax, ay>>,
    pi_b |-> <<<<b00, b01>>, <<b10, b11>>>>,
    pi_c |-> <<cx, cy>>] :
      ax \in {0, 1, 256, BN254_FIELD - 1},
      ay \in {0, 1, 255, (BN254_FIELD - 1) \div 2, BN254_FIELD - 1},
      b00 \in {2, 4097}, b01 \in {3, 258},
      b10 \in {5, BN254_FIELD - 2}, b11 \in {7, 16},
      cx \in {0, 11, BN254_FIELD - 1},
      cy \in {1, 13, BN254_FIELD - 1}}

\* ---------------------------------------------------- Anchor error parsing
\* (mutant) two neighbouring entries of the table change places.
QUEST_ERRORS_Shifted ==
  [n \in 6000..6008 |->
     CASE n = 6000 -> "unauthorized"
       [] n = 6001 -> "deadlineExpired"
       [] n = 6002 -> "poolNotActive"
       [] n = 6003 -> "invalidProof"
       [] n = 6004 -> "invalidDeadline"
       [] n = 6005 -> "insufficientReward"
       [] n = 6006 -> "insufficientPoolBalance"
       [] n = 6007 -> "questionTooLong"
       [] n = 6008 -> "alreadyAnswered"]

QUEST_ERRORS ==
  [n \in 6000..6008 |->
     CASE n = 6000 -> "unauthorized"
       [] n = 6001 -> "poolNotActive"
       [] n = 6002 -> "deadlineExpired"
       [] n = 6003 -> "invalidProof"
       [] n = 6004 -> "invalidDeadline"
       [] n = 6005 -> "insufficientReward"
       [] n = 6006 -> "insufficientPoolBalance"
       [] n = 6007 -> "questionTooLong"
       [] n = 6008 -> "alreadyAnswered"]

\* The "errors" table of the program's IDL.
IdlErrors ==
  <<[code |-> 6000, name |-> "unauthorized"],
    [code |-> 6001, name |-> "poolNotActive"],
    [code |-> 6002, name |-> "deadlineExpired"],
    [code |-> 6003, name |-> "invalidProof"],
    [code |-> 6004, name |-> "invalidDeadline"],
    [code |-> 6005, name |-> "insufficientReward"],
    [code |-> 6006, name |-> "insufficientPoolBalance"],
    [code |-> 6007, name |-> "questionTooLong"],
    [code |-> 6008, name |-> "alreadyAnswered"]>>

\* An error as anchorErrorCode reads it: code is err.error.errorCode.code
\* ("" when absent), custom the number after "Custom": in its message or
\* JSON (-1 when the text holds none).
AnchorErr(code) == [code |-> code, custom |-> -1]

CustomErr(n) == [code |-> "", custom |-> n]

OtherErr == [code |-> "", custom |-> -1]

anchorErrorCode(err) ==
  IF err.code # "" THEN err.code
  ELSE IF err.custom # -1
       THEN IF err.custom \in DOMAIN QUEST_ERRORS THEN QUEST_ERRORS[err.custom] ELSE ""
       ELSE ""

\* Errors a submission can throw: Anchor's parsed errors with the name of a
\* program error or of a framework error, raw errors holding a custom code
\* around the program's range and far from it, errors with neither.
SubmitErrors ==
  {AnchorErr(IdlErrors[i].name) : i \in 1..Len(IdlErrors)}
    \cup {AnchorErr("AccountNotInitialized")}
    \cup {CustomErr(n) : n \in 5980..6030} \cup {CustomErr(0), CustomErr(1), CustomErr(3012)}
    \cup {OtherErr}

\* Pool accounts for a read of the quest state, reward slots included, with
\* more winners counted than slots among them.
PoolAccounts ==
  [isActive : BOOLEAN, round : {1}, answerHash : {1}, deadline : 0..MaxTime,
   rewardCount : 0..2, winnerCount : 0..3]

CodecInit ==
  /\ cin \in {[kind |-> "witness", answer |-> a, answerHash |-> d, pubkey |-> k] :
                a \in Answers, d \in Digests, k \in Pubkeys}
             \cup {[kind |-> "proof", proof |-> pr] : pr \in Proofs}
             \cup {[kind |-> "error", err |-> e] : e \in SubmitErrors}
             \cup {[kind |-> "pool", fetched |-> f, pool |-> pl, now |-> t] :
                     f \in BOOLEAN, pl \in PoolAccounts, t \in 0..MaxTime}
  /\ cout = Null

\* generateProof, building the prover's input: any throw aborts the call.
GenerateProofInput ==
  /\ cin.kind = "witness"
  /\ cout = Null
  /\ LET answerHashFieldStr == hashBytesToFieldStr(cin.answerHash)
         pk == pubkeyToCircuitInputs(cin.pubkey)
         ans == answerToField(cin.answer)
     IN  cout' = IF ~answerHashFieldStr.ok \/ ~ans.ok
                 THEN [thrown |-> "SyntaxError"]
                 ELSE [input |-> [answer |-> ans.val,
                                  answer_hash |-> answerHashFieldStr.val,
                                  pubkey_lo |-> pk.lo,
                                  pubkey_hi |-> pk.hi]]
  /\ UNCHANGED <<clockMs, txStatus, poll, console, prover, cin, rev, now, pool, winnerRecord, attempts, att>>

\* generateProof, returning both encodings of the prover's proof.
GenerateProofResult ==
  /\ cin.kind = "proof"
  /\ cout = Null
  /\ cout' = [solana |-> proofToSolana(cin.proof), hex |-> proofToHex(cin.proof)]
  /\ UNCHANGED <<clockMs, txStatus, poll, console, prover, cin, rev, now, pool, winnerRecord, attempts, att>>

\* handleSubmitError, its first line: the symbolic code of the error.
AnchorErrorCode ==
  /\ cin.kind = "error"
  /\ cout = Null
  /\ cout' = [code |-> anchorErrorCode(cin.err)]
  /\ UNCHANGED <<clockMs, txStatus, poll, console, prover, cin, rev, now, pool, winnerRecord, attempts, att>>

\* =================================================== the quest command
\* Processes that may run `quest answer`; all use the same wallet.
Procs == {1, 2}

\* Answer texts: 0 is the empty string, k > 0 the text whose hash is
\* commitment k.
AnswerTexts == {0, 1, 2}

\* The answer commitments a round can carry.
Commitments == {1, 2}

NoQuest == [none |-> TRUE]

NoProof == [none |-> TRUE]

IdleAttempt ==
  [pc |-> "Idle", answer |-> 0, relay |-> FALSE, quest |-> NoQuest,
   curRound |-> 0, obs |-> <<>>, proof |-> NoProof, proved |-> 0, sent |-> 0,
   lateAtProveEnd |-> FALSE, answeredAtStart |-> 0, txOk |-> FALSE,
   proveError |-> "", check |-> Null,
   relayResp |-> Null, carried |-> "", txId |-> "", confirmSeen |-> FALSE,
   fetches |-> 0, tx |-> Null, reward |-> Null, rewardError |-> "",
   failure |-> "", txOf |-> 0,
   outcome |-> "", exit |-> -1]

\* process.exit(code) or a normal return (code 0) with the outcome printed.
Finish(a, outcome, code) ==
  [a EXCEPT !.pc = "Done", !.outcome = outcome, !.exit = code]

\* The circuit's consistency assertion: hash(answer) == commitment.
CircuitAccepts(answer, answerHash) == answer # 0 /\ answer = answerHash

\* (mutant) a deadline equal to now is not yet expired.
getQuestInfoLate(pl, t) ==
  LET secsLeft == pl.deadline - t
  IN  [active |-> pl.isActive, round |-> pl.round, answerHash |-> pl.answerHash,
       deadline |-> pl.deadline, timeRemaining |-> secsLeft,
       expired |-> secsLeft < 0]

\* getQuestInfo: the snapshot built from the fetched pool at time t.
getQuestInfo(pl, t) ==
  LET secsLeft == pl.deadline - t
  IN  [active |-> pl.isActive, round |-> pl.round, answerHash |-> pl.answerHash,
       deadline |-> pl.deadline, timeRemaining |-> secsLeft,
       expired |-> secsLeft <= 0]

\* (mutant) the remaining slots are not clamped at 0.
questSlotsUnclamped(pl) ==
  [rewardCount |-> pl.rewardCount, winnerCount |-> pl.winnerCount,
   remainingSlots |-> pl.rewardCount - pl.winnerCount]

\* getQuestInfo, the reward slots of the snapshot:
\* remainingSlots = Math.max(0, rewardCount - winnerCount).
questSlots(pl) ==
  [rewardCount |-> pl.rewardCount, winnerCount |-> pl.winnerCount,
   remainingSlots |-> IF pl.rewardCount - pl.winnerCount > 0
                      THEN pl.rewardCount - pl.winnerCount ELSE 0]

\* getQuestInfo as one call: the pool fetch throws, or the snapshot is built
\* at time cin.now.
GetQuestInfo ==
  /\ cin.kind = "pool"
  /\ cout = Null
  /\ cout' = IF ~cin.fetched THEN [thrown |-> "fetchError"]
             ELSE [quest |-> getQuestInfo(cin.pool, cin.now),
                   slots |-> questSlots(cin.pool)]
  /\ UNCHANGED <<clockMs, txStatus, poll, console, prover, cin, rev, now, pool, winnerRecord, attempts, att>>

\* Revisions 1 and 2 read the pool themselves and compare now >= deadline.
poolSnapshot(pl, t) ==
  [active |-> pl.isActive, round |-> pl.round, answerHash |-> pl.answerHash,
   deadline |-> pl.deadline, timeRemaining |-> pl.deadline - t,
   expired |-> t >= pl.deadline]

\* The catch around proof generation, revision 1: one report for any failure.
proveErrorOutcomeV1(assertFailed) == "proofFailed"

\* The catch around proof generation, revisions 2 and 3: a message holding
\* "Assert Failed" is a wrong answer, any other an infrastructure failure.
proveErrorOutcome(assertFailed) ==
  IF assertFailed THEN "wrongAnswer" ELSE "proofInfra"

ReportProveError(assertFailed) ==
  IF rev = 1 THEN proveErrorOutcomeV1(assertFailed)
  ELSE proveErrorOutcome(assertFailed)

\* Proof generation threw `thrown` ("assert": the circuit's assertion failed,
\* "other": anything else) inside the try: report it and exit 1.
FailProof(a, thrown) ==
  Finish([a EXCEPT !.proveError = thrown], ReportProveError(thrown = "assert"), 1)

\* handleSubmitError: the four codes it names, any other code or error falls
\* to the default branch; every branch ends in process.exit(1).
handleSubmitError(code) ==
  IF code \in {"alreadyAnswered", "deadlineExpired", "invalidProof", "poolNotActive"}
  THEN code ELSE "submitFailed"

\* The quest program's checks on a submitAnswer instruction carrying `proof`:
\* the custom errors that apply (the program reports one of them).
ChainErrors(proof) ==
  {e \in {"poolNotActive", "deadlineExpired", "invalidProof", "alreadyAnswered"} :
     \/ e = "poolNotActive" /\ ~pool.isActive
     \/ e = "deadlineExpired" /\ now >= pool.deadline
     \/ e = "invalidProof" /\ ~CircuitAccepts(proof.answer, pool.answerHash)
     \/ e = "alreadyAnswered" /\ winnerRecord = pool.round}

AttemptInit ==
  /\ rev \in 1..3
  /\ now = 1
  /\ pool \in [isActive : BOOLEAN, round : {1}, answerHash : Commitments,
               deadline : 0..MaxTime]
  /\ winnerRecord = 0
  /\ attempts = 0
  /\ att = [p \in Procs |-> IdleAttempt]

\* ----------------------------------------------------------- environment
Tick ==
  /\ now < MaxTime
  /\ now' = now + 1
  /\ UNCHANGED <<clockMs, txStatus, poll, console, prover, cin, cout, rev, pool, winnerRecord, attempts, att>>

\* createQuestion by the authority: the next round, its deadline in the future.
CreateQuestion ==
  /\ pool.round < MaxRound
  /\ \E h \in Commitments, d \in (now + 1)..MaxTime :
       pool' = [isActive |-> TRUE, round |-> pool.round + 1,
                answerHash |-> h, deadline |-> d]
  /\ UNCHANGED <<clockMs, txStatus, poll, console, prover, cin, cout, rev, now, winnerRecord, attempts, att>>

\* ------------------------------------------------------ handleQuestAnswer
\* `quest answer <answer> [--relay]` is run.
StartAttempt(p) ==
  /\ att[p].pc \in {"Idle", "Done"}
  /\ attempts < MaxAttempts
  /\ attempts' = attempts + 1
  /\ \E a \in AnswerTexts, r \in BOOLEAN :
       att' = [att EXCEPT ![p] =
                 [IdleAttempt EXCEPT !.pc = "FetchQuest", !.answer = a, !.relay = r,
                                     !.answeredAtStart =
                                        IF winnerRecord = pool.round
                                        THEN pool.round ELSE 0]]
  /\ UNCHANGED <<clockMs, txStatus, poll, console, prover, cin, cout, rev, now, pool, winnerRecord>>

\* The checks that follow the quest fetch: active, then expired.
AfterQuestFetch(a, q, next) ==
  IF ~q.active THEN Finish([a EXCEPT !.quest = q], "inactive", 1)
  ELSE IF q.expired
       THEN Finish([a EXCEPT !.quest = q, !.obs = <<"active">>], "expired", 1)
       ELSE [a EXCEPT !.quest = q, !.obs = <<"active", "notExpired">>, !.pc = next]

\* Revision 3, step 1: getQuestInfo, then the active and expired checks.
FetchQuest(p) ==
  /\ rev = 3
  /\ att[p].pc = "FetchQuest"
  /\ \E fetched \in BOOLEAN :
       att' = [att EXCEPT ![p] =
                 IF ~fetched THEN Finish(att[p], "questUninitialized", 1)
                 ELSE AfterQuestFetch(att[p], getQuestInfo(pool, now), "HasAnswered")]
  /\ UNCHANGED <<clockMs, txStatus, poll, console, prover, cin, cout, rev, now, pool, winnerRecord, attempts>>

\* Revisions 1 and 2, step 1: fetch the pool, then the same two checks.
FetchPool(p) ==
  /\ rev \in {1, 2}
  /\ att[p].pc = "FetchQuest"
  /\ \E fetched \in BOOLEAN :
       att' = [att EXCEPT ![p] =
                 IF ~fetched THEN Finish(att[p], "questUninitialized", 1)
                 ELSE AfterQuestFetch(att[p], poolSnapshot(pool, now), "FetchRecord")]
  /\ UNCHANGED <<clockMs, txStatus, poll, console, prover, cin, cout, rev, now, pool, winnerRecord, attempts>>

\* Revision 3, hasAnswered: it fetches the quest again; a failure here is
\* caught by nothing but the command's own catch.
HasAnsweredQuest(p) ==
  /\ rev = 3
  /\ att[p].pc = "HasAnswered"
  /\ \E fetched \in BOOLEAN :
       att' = [att EXCEPT ![p] =
                 IF ~fetched THEN Finish(att[p], "error", 1)
                 ELSE [att[p] EXCEPT !.curRound = pool.round, !.pc = "FetchRecord"]]
  /\ UNCHANGED <<clockMs, txStatus, poll, console, prover, cin, cout, rev, now, pool, winnerRecord, attempts>>

\* What fetching the WinnerRecord can give: the record, "not found" when it
\* does not exist, or a transport failure at any time.
RecordFetchResults ==
  {"rpcError"} \cup (IF winnerRecord = 0 THEN {"notFound"} ELSE {"found"})

\* The already-answered check: any throw of the fetch counts as "not answered".
hasAnswered(fetch, recordRound, questRound) ==
  IF fetch = "found" THEN recordRound = questRound ELSE FALSE

\* Step 2: fetch the WinnerRecord and compare its round; revision 1 then
\* refuses to go on without the circuit files configured.
FetchRecord(p) ==
  /\ att[p].pc = "FetchRecord"
  /\ \E fetch \in RecordFetchResults, configured \in BOOLEAN :
       /\ (rev # 1 => configured)
       /\ LET questRound == IF rev = 3 THEN att[p].curRound ELSE att[p].quest.round
              ret == hasAnswered(fetch, winnerRecord, questRound)
              a == [att[p] EXCEPT !.check = [record |-> winnerRecord,
                                             round |-> questRound,
                                             fetch |-> fetch, ret |-> ret]]
          IN  att' = [att EXCEPT ![p] =
                IF ret
                THEN Finish(a, "alreadyAnswered", 0)
                ELSE IF ~configured
                     THEN Finish([a EXCEPT !.obs = Append(a.obs, "notAnswered")],
                                 "zkNotConfigured", 1)
                     ELSE [a EXCEPT !.obs = Append(a.obs, "notAnswered"),
                                    !.pc = "BeginProof"]]
  /\ UNCHANGED <<clockMs, txStatus, poll, console, prover, cin, cout, rev, now, pool, winnerRecord, attempts>>

\* Step 3, first half: load the prover and build its input.  The empty answer
\* makes answerToField throw inside the try; a failed import is inside the try
\* only in revision 3 (in revisions 1 and 2 it reaches the command's catch).
BeginProof(p) ==
  /\ att[p].pc = "BeginProof"
  /\ \E imported \in BOOLEAN :
       LET a == att[p]
       IN  att' = [att EXCEPT ![p] =
             IF ~imported
             THEN IF rev = 3 THEN FailProof(a, "other")
                  ELSE Finish(a, "error", 1)
             ELSE IF a.answer = 0
                  THEN FailProof(a, "other")
                  ELSE [a EXCEPT !.proved = a.proved + 1, !.pc = "Proving"]]
  /\ UNCHANGED <<clockMs, txStatus, poll, console, prover, cin, cout, rev, now, pool, winnerRecord, attempts>>

\* What the prover can answer for this witness.
ProverResults(a) ==
  {"other"} \cup (IF CircuitAccepts(a.answer, a.quest.answerHash)
                  THEN {"ok"} ELSE {"assert"})

\* (mutant) a proof kept from the run before is dispatched again.
AfterProofReused(a, rechecks) ==
  LET b == [a EXCEPT !.proof = [answer |-> a.answer, answerHash |-> a.quest.answerHash,
                                attempt |-> IF attempts > 1 THEN attempts - 1
                                            ELSE attempts],
                     !.lateAtProveEnd = (now >= a.quest.deadline)]
  IN  IF rechecks /\ now >= a.quest.deadline
      THEN Finish(b, "expiredAfterProof", 1)
      ELSE [b EXCEPT !.sent = a.sent + 1, !.pc = "Submitting"]

\* The code after a successful proof: recheck the deadline when the path has
\* a recheck, then dispatch the submission.
AfterProof(a, rechecks) ==
  LET b == [a EXCEPT !.proof = [answer |-> a.answer, answerHash |-> a.quest.answerHash,
                                attempt |-> attempts],
                     !.lateAtProveEnd = (now >= a.quest.deadline)]
  IN  IF rechecks /\ now >= a.quest.deadline
      THEN Finish(b, "expiredAfterProof", 1)
      ELSE [b EXCEPT !.sent = a.sent + 1, !.pc = "Submitting"]

\* Step 3, second half, and step 4: the prover returns; handleQuestAnswer
\* rechecks the deadline (every path of revision 3, the direct path of
\* revisions 1 and 2).
ProveFinish(p) ==
  /\ att[p].pc = "Proving"
  /\ rev = 3 \/ ~att[p].relay
  /\ \E res \in ProverResults(att[p]) :
       att' = [att EXCEPT ![p] =
                 IF res = "ok" THEN AfterProof(att[p], TRUE)
                 ELSE FailProof(att[p], res)]
  /\ UNCHANGED <<clockMs, txStatus, poll, console, prover, cin, cout, rev, now, pool, winnerRecord, attempts>>

\* handleRelayAnswer of revisions 1 and 2: the prover returns and the proof is
\* posted to the relay.
RelayProveFinish(p) ==
  /\ att[p].pc = "Proving"
  /\ rev \in {1, 2} /\ att[p].relay
  /\ \E res \in ProverResults(att[p]) :
       att' = [att EXCEPT ![p] =
                 IF res = "ok" THEN AfterProof(att[p], FALSE)
                 ELSE FailProof(att[p], res)]
  /\ UNCHANGED <<clockMs, txStatus, poll, console, prover, cin, cout, rev, now, pool, winnerRecord, attempts>>

\* How the program can end a submitAnswer instruction carrying `proof`: with
\* one of the errors its checks give, or, the checks passed, with "ok" or
\* with a pool balance too small for the reward transfer.
ChainOutcomes(proof) ==
  IF ChainErrors(proof) = {} THEN {"ok", "insufficientPoolBalance"}
  ELSE ChainErrors(proof)

\* The error rpc() throws for a failure: a program error arrives parsed by
\* Anchor (its name as errorCode.code) or raw with "Custom":<number> in its
\* text; a transport failure holds neither.
ThrownErrors(failure) ==
  IF failure = "transport" THEN {OtherErr}
  ELSE {AnchorErr(failure)}
       \cup {CustomErr(IdlErrors[i].code) :
               i \in {j \in 1..Len(IdlErrors) : IdlErrors[j].name = failure}}

\* Step 5, direct: the transaction is sent without preflight and confirmed
\* by program.methods...rpc(); the program accepts it or reports a custom
\* error (a failed check, or a pool balance too small for the reward
\* transfer), or the RPC call fails.
SubmitDirect(p) ==
  /\ att[p].pc = "Submitting"
  /\ ~att[p].relay
  /\ \E res \in ChainOutcomes(att[p].proof) \cup {"transport"} :
           IF res = "ok"
           THEN /\ winnerRecord' = pool.round
                /\ att' = [att EXCEPT ![p].pc = "Reward", ![p].txOk = TRUE,
                                      ![p].txId = "tx", ![p].txOf = attempts,
                                      ![p].confirmSeen = TRUE]
           ELSE /\ \E err \in ThrownErrors(res) :
                     att' = [att EXCEPT ![p] =
                               Finish([att[p] EXCEPT !.failure = res],
                                      handleSubmitError(anchorErrorCode(err)), 1)]
                /\ UNCHANGED winnerRecord
  /\ UNCHANGED <<clockMs, txStatus, poll, console, prover, cin, cout, rev, now, pool, attempts>>

\* What the relay can answer: the HTTP status class and the kind of body
\* ("txHash": a JSON object with txHash, "error": a JSON object with error,
\* "empty": a JSON object with neither, "notJson": a body that is not JSON).
RelayResponses == [ok : BOOLEAN, body : {"txHash", "error", "empty", "notJson"}]

\* submitAnswerViaRelay after the POST returned resp: res.json() is awaited
\* first, then res.ok is tested.
submitAnswerViaRelay(resp) ==
  IF resp.body = "notJson" THEN [thrown |-> "parseError"]
  ELSE IF ~resp.ok
       THEN [thrown |-> IF resp.body = "error" THEN "relayMessage" ELSE "httpStatus"]
       ELSE [txHash |-> IF resp.body = "txHash" THEN "tx" ELSE "undefined"]

\* How the command ends when the relay submission threw `thrown`: revision 3
\* catches everything around the call; revisions 1 and 2 report the non-2xx
\* answer themselves and leave any throw to the command's catch.
RelayFailure(a, thrown) ==
  Finish([a EXCEPT !.carried = thrown],
         IF rev = 3 \/ thrown \in {"relayMessage", "httpStatus"}
         THEN "relayFailed" ELSE "error", 1)

\* Step 5, relay: the POST fails, or the relay answers; with a 2xx answer
\* holding a txHash the relay has sent the transaction, which the program
\* accepts or rejects.  Reward extraction follows at once.
SubmitRelay(p) ==
  /\ att[p].pc = "Submitting"
  /\ att[p].relay
  /\ \/ /\ att' = [att EXCEPT ![p] = RelayFailure(att[p], "networkError")]
        /\ UNCHANGED winnerRecord
     \/ \E resp \in RelayResponses :
          LET a == [att[p] EXCEPT !.relayResp = resp]
              r == submitAnswerViaRelay(resp)
          IN  IF "thrown" \in DOMAIN r
              THEN /\ att' = [att EXCEPT ![p] = RelayFailure(a, r.thrown)]
                   /\ UNCHANGED winnerRecord
              ELSE \E res \in (IF resp.body = "txHash" THEN ChainOutcomes(a.proof)
                                ELSE {"unsent"}) :
                     /\ winnerRecord' = IF res = "ok" THEN pool.round ELSE winnerRecord
                     /\ att' = [att EXCEPT ![p] =
                                  [a EXCEPT !.pc = "Reward", !.txOk = (res = "ok"),
                                            !.txId = r.txHash,
                                            !.txOf = IF resp.body = "txHash"
                                                     THEN attempts ELSE 0,
                                            !.failure = IF res \in {"ok", "unsent"}
                                                        THEN "" ELSE res]]
  /\ UNCHANGED <<clockMs, txStatus, poll, console, prover, cin, cout, rev, now, pool, attempts>>

\* ------------------------------------------------------ reward extraction
\* Default of parseQuestReward's `retries` parameter (revision 3).
retries == 10

\* Bound of the fetch loop of parseReward (revisions 1 and 2).
parseRewardTries == 5

FetchTries == IF rev = 3 THEN retries ELSE parseRewardTries

\* An inner instruction as the code reads it: the program it invokes, the
\* u32 instruction type and u64 lamports of its data, its second account.
Transfer(dest, lamports) ==
  [programId |-> "system", type |-> 2, lamports |-> lamports, dest |-> dest]

\* A log line: whether it matches /reward (\d+) lamports \(winner .../ and
\* the number it holds.
RewardLog(n) == [match |-> TRUE, reward |-> n]

OtherLog == [match |-> FALSE, reward |-> 0]

\* The transaction of a submission the program rejected: meta.err is set.
FailedTx == [inner |-> <<>>, logs |-> <<OtherLog>>, err |-> "InstructionError"]

\* Transactions of accepted submissions: no reward slot left, one reward,
\* two rewards beside a transfer to another account, a transfer to another
\* account only.  The program logs one reward line per reward it pays.
QuestTxs ==
  {[inner |-> <<>>, logs |-> <<OtherLog>>, err |-> ""],
   [inner |-> <<Transfer("caller", 500)>>, logs |-> <<OtherLog, RewardLog(500)>>,
    err |-> ""],
   [inner |-> <<Transfer("caller", 500), Transfer("caller", 300),
                Transfer("other", 1000)>>,
    logs |-> <<RewardLog(500), RewardLog(300)>>, err |-> ""],
   [inner |-> <<Transfer("other", 1000)>>, logs |-> <<OtherLog>>, err |-> ""]}

RECURSIVE parseQuestRewardLogs(_)
\* parseQuestReward, the scan of the log messages: the number of the first
\* matching line, 0 when none matches.
parseQuestRewardLogs(logs) ==
  IF logs = <<>> THEN 0
  ELSE IF logs[1].match THEN logs[1].reward
       ELSE parseQuestRewardLogs(Tail(logs))

RECURSIVE parseRewardInner(_)
\* parseReward, the scan of the inner instructions: the lamports of every
\* system-program transfer to the user, added up.
parseRewardInner(inner) ==
  IF inner = <<>> THEN 0
  ELSE (IF inner[1].programId = "system" /\ inner[1].type = 2
           /\ inner[1].dest = "caller"
        THEN inner[1].lamports ELSE 0) + parseRewardInner(Tail(inner))

\* The reward read from a fetched transaction.
ExtractReward(t) ==
  LET lamports == IF rev = 3 THEN parseQuestRewardLogs(t.logs)
                  ELSE parseRewardInner(t.inner)
  IN  [rewarded |-> lamports > 0, amount |-> lamports]

\* What one getTransaction call can give: the transaction, nothing yet, or a
\* throw; an undefined signature makes every call throw.
FetchResults(a) ==
  IF a.txId = "undefined" THEN {"throws"} ELSE {"tx", "null", "throws"}

\* Step 6, one turn of the fetch loop of parseQuestReward / parseReward with
\* what follows it when the loop ends: the reward is read from the
\* transaction, or the transaction was never fetched (parseQuestReward throws
\* and handleReward catches, parseReward warns and returns); the command
\* returns normally either way.
HandleReward(p) ==
  /\ att[p].pc = "Reward"
  /\ att[p].fetches < FetchTries
  /\ \E res \in FetchResults(att[p]) :
       LET a == [att[p] EXCEPT !.fetches = att[p].fetches + 1]
       IN  IF res = "tx"
           THEN \E t \in (IF a.txOk THEN QuestTxs ELSE {FailedTx}) :
                  LET rw == ExtractReward(t)
                  IN  att' = [att EXCEPT ![p] =
                                Finish([a EXCEPT !.tx = t, !.reward = rw],
                                       IF rw.rewarded THEN "rewarded" ELSE "noReward",
                                       0)]
           ELSE IF a.fetches < FetchTries
                THEN att' = [att EXCEPT ![p] = a]
                ELSE att' = [att EXCEPT ![p] =
                               Finish([a EXCEPT !.rewardError =
                                                   IF rev = 3 THEN "notIndexed" ELSE ""],
                                      "rewardUnknown", 0)]
  /\ UNCHANGED <<clockMs, txStatus, poll, console, prover, cin, cout, rev, now, pool, winnerRecord, attempts>>

Step(p) ==
  \/ StartAttempt(p)
  \/ FetchQuest(p)
  \/ FetchPool(p)
  \/ HasAnsweredQuest(p)
  \/ FetchRecord(p)
  \/ BeginProof(p)
  \/ ProveFinish(p)
  \/ RelayProveFinish(p)
  \/ SubmitDirect(p)
  \/ SubmitRelay(p)
  \/ HandleReward(p)

\* One `quest answer` at a time, run after run.
Next == Tick \/ CreateQuestion \/ Step(1)

vars == <<cin, cout, rev, now, pool, winnerRecord, attempts, att, clockMs, txStatus, poll,
          console, prover>>

\* ===================================================== pollConfirmation
\* timeoutMs and intervalMs of a call, in clock steps: no time at all, one
\* and a half intervals, two intervals.
Timeouts == {0, 3, 4}

Intervals == {2}

\* A query not answered yet.
NoReport == [noReport |-> TRUE]

IdlePoll ==
  [pc |-> "Idle", start |-> 0, timeoutMs |-> 0, intervalMs |-> 0,
   queries |-> 0, sleeps |-> 0, queryAt |-> 0, wake |-> 0, slack |-> 0,
   last |-> NoReport, reports |-> {}, result |-> "", error |-> "", endAt |-> 0,
   abandonedAt |-> -1]

\* The signature is unknown to the cluster.
AbsentTx == [conf |-> "absent", err |-> "", confirmedAt |-> -1]

\* Before pollConfirmation is called: the transaction was just sent.
PollIdle == clockMs = 0 /\ txStatus = AbsentTx /\ poll = IdlePoll

\* value?.[0] of getSignatureStatuses: null for an unknown signature.
statusOf(tx) ==
  IF tx.conf = "absent" THEN Null
  ELSE [confirmationStatus |-> tx.conf, err |-> tx.err]

\* (mutant) the loop runs once more at the timeout itself.
loopContinuesAtTimeout(t, start, timeoutMs) == t - start <= timeoutMs

\* The while condition: Date.now() - start < timeoutMs.
loopContinues(t, start, timeoutMs) == t - start < timeoutMs

\* (mutant) the confirmation status is tested before the error.
pollStatusConfirmedFirst(status) ==
  IF status = Null THEN "sleep"
  ELSE IF status.confirmationStatus \in {"confirmed", "finalized"} THEN "return"
  ELSE IF status.err # "" THEN "throw"
  ELSE "sleep"

\* The body of the loop after the query: throw on status.err, return on
\* confirmed or finalized, sleep otherwise.
pollStatus(status) ==
  IF status = Null THEN "sleep"
  ELSE IF status.err # "" THEN "throw"
  ELSE IF status.confirmationStatus \in {"confirmed", "finalized"} THEN "return"
  ELSE "sleep"

EndPoll(pl, result) ==
  [pl EXCEPT !.pc = "Done", !.result = result, !.endAt = clockMs]

\* Entering the loop at its top: the condition is tested and the status
\* query is sent, or the timeout is thrown.
EnterLoop(pl) ==
  IF loopContinues(clockMs, pl.start, pl.timeoutMs)
  THEN [pl EXCEPT !.pc = "Query", !.queries = pl.queries + 1, !.queryAt = clockMs]
  ELSE EndPoll(pl, "timeout")

\* The clock moves on, whatever pollConfirmation waits for.
PollTick ==
  /\ clockMs < MaxClock
  /\ clockMs' = clockMs + 1
  /\ UNCHANGED <<txStatus, poll, console, prover, cin, cout, rev, now, pool, winnerRecord, attempts, att>>

\* The cluster processes the transaction (it runs with or without an
\* error), then confirms it, then finalizes it.
ChainAdvance ==
  /\ \/ /\ txStatus.conf = "absent"
        /\ \E e \in {"", "InstructionError"} :
             txStatus' = [conf |-> "processed", err |-> e, confirmedAt |-> -1]
     \/ /\ txStatus.conf = "processed"
        /\ txStatus' = [txStatus EXCEPT !.conf = "confirmed", !.confirmedAt = clockMs]
     \/ /\ txStatus.conf = "confirmed"
        /\ txStatus' = [txStatus EXCEPT !.conf = "finalized"]
  /\ UNCHANGED <<clockMs, poll, console, prover, cin, cout, rev, now, pool, winnerRecord, attempts, att>>

\* pollConfirmation is called: start is taken and the loop entered.
PollConfirmation ==
  /\ poll.pc = "Idle"
  /\ \E t \in Timeouts, i \in Intervals :
       poll' = EnterLoop([IdlePoll EXCEPT !.start = clockMs, !.timeoutMs = t,
                                          !.intervalMs = i])
  /\ UNCHANGED <<clockMs, txStatus, console, prover, cin, cout, rev, now, pool, winnerRecord, attempts, att>>

\* getSignatureStatuses answers (or throws) and the rest of the loop body
\* runs up to the sleep.
QueryReturn ==
  /\ poll.pc = "Query"
  /\ \E thrown \in BOOLEAN :
       LET status == statusOf(txStatus)
           pl == [poll EXCEPT !.slack = poll.slack + (clockMs - poll.queryAt)]
           seen == [pl EXCEPT !.last = status,
                              !.reports = pl.reports \cup
                                 (IF status = Null THEN {"absent"}
                                  ELSE {status.confirmationStatus}
                                       \cup (IF status.err # "" THEN {"err"} ELSE {}))]
           verdict == pollStatus(status)
       IN  poll' =
             IF thrown
             THEN EndPoll([pl EXCEPT !.reports = pl.reports \cup {"throws"}], "rpcError")
             ELSE IF verdict = "throw"
                  THEN EndPoll([seen EXCEPT !.error = status.err], "execError")
                  ELSE IF verdict = "return" THEN EndPoll(seen, "ok")
                  ELSE [seen EXCEPT !.pc = "Sleep", !.sleeps = seen.sleeps + 1,
                                    !.wake = clockMs + seen.intervalMs]
  /\ UNCHANGED <<clockMs, txStatus, console, prover, cin, cout, rev, now, pool, winnerRecord, attempts, att>>

\* The timer of the sleep fires, at its time or later, and the loop is
\* entered again.
SleepEnd ==
  /\ poll.pc = "Sleep"
  /\ clockMs >= poll.wake
  /\ poll' = EnterLoop([poll EXCEPT !.slack = poll.slack + (clockMs - poll.wake)])
  /\ UNCHANGED <<clockMs, txStatus, console, prover, cin, cout, rev, now, pool, winnerRecord, attempts, att>>

\* The caller stops waiting for the call (its own timeout fired, or it gave
\* the round up).  pollConfirmation(connection, signature, timeoutMs,
\* intervalMs) takes no signal and reads no flag, so the request changes
\* nothing the loop looks at; the number of queries sent so far is kept.
CallerAbandons ==
  /\ poll.pc \in {"Query", "Sleep"}
  /\ poll.abandonedAt = -1
  /\ poll' = [poll EXCEPT !.abandonedAt = poll.queries]
  /\ UNCHANGED <<clockMs, txStatus, console, prover, cin, cout, rev, now, pool, winnerRecord, attempts, att>>

\* ========================================================= silentProve
ProveCalls == 1..NumCalls

\* console.log and console.error as the process starts.
OriginalConsole == [log |-> <<"original", 0>>, error |-> <<"original", 0>>]

IdleCall ==
  [pc |-> "Idle", savedLog |-> <<"none", 0>>, savedError |-> <<"none", 0>>,
   result |-> ""]

ProveIdle == console = OriginalConsole /\ prover = [c \in ProveCalls |-> IdleCall]

\* silentProve up to its await: the current functions are saved and two new
\* empty functions (of call c) put in their place.
SilentProveStart(c) ==
  /\ prover[c].pc = "Idle"
  /\ prover' = [prover EXCEPT ![c] = [pc |-> "Proving", savedLog |-> console.log,
                                      savedError |-> console.error, result |-> ""]]
  /\ console' = [log |-> <<"noop", c>>, error |-> <<"noop", c>>]
  /\ UNCHANGED <<clockMs, txStatus, poll, cin, cout, rev, now, pool, winnerRecord,
                 attempts, att>>

\* fullProve resolves or rejects and the finally block puts back what this
\* call saved.
SilentProveEnd(c) ==
  /\ prover[c].pc = "Proving"
  /\ \E res \in {"proof", "thrown"} :
       prover' = [prover EXCEPT ![c].pc = "Done", ![c].result = res]
  /\ console' = [log |-> prover[c].savedLog, error |-> prover[c].savedError]
  /\ UNCHANGED <<clockMs, txStatus, poll, cin, cout, rev, now, pool, winnerRecord,
                 attempts, att>>

\* The codec runs leave the command's state alone, and the command the codec's.
CodecIdle == cin = Null /\ cout = Null

Init == AttemptInit /\ CodecIdle /\ PollIdle /\ ProveIdle

Spec == Init /\ [][Next]_vars

\* During the codec runs no command runs.
AttemptIdle ==
  /\ rev = 3 /\ now = 1 /\ winnerRecord = 0 /\ attempts = 0
  /\ pool = [isActive |-> FALSE, round |-> 1, answerHash |-> 1, deadline |-> 0]
  /\ att = [p \in Procs |-> IdleAttempt]

InitCodec == CodecInit /\ AttemptIdle /\ PollIdle /\ ProveIdle

NextCodec ==
  GenerateProofInput \/ GenerateProofResult \/ AnchorErrorCode \/ GetQuestInfo

SpecCodec == InitCodec /\ [][NextCodec]_vars

InitPoll == PollIdle /\ AttemptIdle /\ CodecIdle /\ ProveIdle

NextPoll ==
  PollTick \/ ChainAdvance \/ PollConfirmation \/ QueryReturn \/ SleepEnd
    \/ CallerAbandons

SpecPoll == InitPoll /\ [][NextPoll]_vars

\* Two runs of `quest answer` by the same wallet at the same time, in a round
\* that stays open.
RaceInit ==
  /\ rev \in 1..3
  /\ now = 1
  /\ pool = [isActive |-> TRUE, round |-> 1, answerHash |-> 1, deadline |-> MaxTime]
  /\ winnerRecord = 0
  /\ attempts = 0
  /\ att = [p \in Procs |-> IdleAttempt]

InitRace == RaceInit /\ CodecIdle /\ PollIdle /\ ProveIdle

NextRace == \E p \in Procs : Step(p)

SpecRace == InitRace /\ [][NextRace]_vars

InitProve == ProveIdle /\ AttemptIdle /\ CodecIdle /\ PollIdle

NextProve == \E c \in ProveCalls : SilentProveStart(c) \/ SilentProveEnd(c)

SpecProve == InitProve /\ [][NextProve]_vars

\* ------------------------------------------- claims on the quest command
\* C1: the prover is invoked only after the attempt observed, in this order,
\* that the round is active, that now < deadline and that the caller has not
\* answered the round; an active round whose deadline is now or earlier ends
\* the attempt as expired with no prover invocation and no submission.
C1_ChecksBeforeProof ==
  \A p \in Procs :
    LET a == att[p]
    IN  /\ (a.pc = "Proving" \/ a.proved > 0) =>
             a.obs = <<"active", "notExpired", "notAnswered">>
        /\ a.outcome = "expired" => (a.proved = 0 /\ a.sent = 0)
        /\ (a.quest # NoQuest /\ a.quest.active /\ a.quest.timeRemaining <= 0) =>
             /\ a.pc = "Done" /\ a.outcome = "expired" /\ a.exit = 1
             /\ a.proved = 0 /\ a.sent = 0

\* An attempt met an active round whose deadline is exactly now and ended as
\* expired.
C1_Witness ==
  \E p \in Procs :
    /\ att[p].outcome = "expired"
    /\ att[p].quest.active
    /\ att[p].quest.timeRemaining = 0

\* The checks passed and the prover is running.
C1_WitnessProving ==
  \E p \in Procs : att[p].pc = "Proving" /\ att[p].proved = 1

\* Outcomes of the gates that come before the already-answered check.
EarlierRejections == {"questUninitialized", "inactive", "expired", "error"}

\* C2: once a submission for round r succeeded (the WinnerRecord holds r), a
\* later attempt made while the round is still r ends as already answered
\* (unless an earlier gate rejected it), never invokes the prover and never
\* dispatches a submission.
C2_Idempotent ==
  \A p \in Procs :
    LET a == att[p]
    IN  (a.pc # "Idle" /\ a.answeredAtStart # 0 /\ pool.round = a.answeredAtStart) =>
          /\ a.proved = 0
          /\ a.sent = 0
          /\ a.pc \notin {"BeginProof", "Proving", "Submitting", "Reward"}
          /\ a.pc = "Done" => a.outcome \in EarlierRejections \cup {"alreadyAnswered"}

\* C3: on either path, when now >= deadline at the moment proving finishes,
\* the attempt is rejected locally and nothing is dispatched.
C3_RecheckBothPaths ==
  \A p \in Procs :
    att[p].lateAtProveEnd =>
      /\ att[p].sent = 0
      /\ att[p].pc = "Done"
      /\ att[p].outcome = "expiredAfterProof"

\* C4: a failed proof generation is reported as wrong answer when the
\* circuit's assertion failed and as infrastructure failure otherwise, two
\* different reports, and the attempt ends with no proof and no submission.
C4_ProofFailureKinds ==
  \A p \in Procs :
    LET a == att[p]
    IN  a.proveError # "" =>
          /\ a.pc = "Done"
          /\ a.proveError = "assert" => a.outcome = "wrongAnswer"
          /\ a.proveError = "other" => a.outcome = "proofInfra"
          /\ a.proof = NoProof
          /\ a.sent = 0

\* ---------------------------------------------- what the claims speak about
RECURSIVE BigEndian(_)
\* A byte string read as a big-endian integer (the empty string reads as 0).
BigEndian(bytes) ==
  IF bytes = <<>> THEN 0
  ELSE 256 * BigEndian(SubSeq(bytes, 1, Len(bytes) - 1)) + bytes[Len(bytes)]

RECURSIVE Pow256(_)
Pow256(n) == IF n = 0 THEN 1 ELSE 256 * Pow256(n - 1)

\* The FieldBytes-byte big-endian encoding of v, for 0 <= v < 256^FieldBytes.
FieldEncoding(v) ==
  [i \in 1..FieldBytes |-> (v \div Pow256(FieldBytes - i)) % 256]

ProofDone == cin.kind = "proof" /\ cout # Null

WitnessDone == cin.kind = "witness" /\ cout # Null

\* The on-chain encoding as one byte string, and its k-th field slot
\* (slot k is bytes 32(k-1) .. 32k-1 of the source's 256 bytes).
OnChainBytes == cout.solana.proofA \o cout.solana.proofB \o cout.solana.proofC

Slot(k) == SubSeq(OnChainBytes, (k - 1) * FieldBytes + 1, k * FieldBytes)

\* C5: bytes 32-63 of the on-chain encoding are the big-endian encoding of
\* (P - A.y) mod P, a value in [0, P), and never the raw A.y, for every A.y in
\* [0, P), A.y = 0 included.
C5_NegatedYModP ==
  ProofDone =>
    LET y == cin.proof.pi_a[2]
    IN  /\ Slot(2) = FieldEncoding((BN254_FIELD - y) % BN254_FIELD)
        /\ BigEndian(Slot(2)) \in 0..(BN254_FIELD - 1)
        /\ Slot(2) # FieldEncoding(y)

\* C6: the on-chain encoding is exactly 8 field widths long (proofA 2, proofB
\* 4, proofC 2; 64 + 128 + 64 = 256 bytes in the source) and each of the eight
\* slots is the zero-padded, untruncated big-endian encoding of the value put
\* in it, so decoding the slot returns that value.
C6_FixedWidthSlots ==
  ProofDone =>
    LET pr == cin.proof
        encoded == <<pr.pi_a[1], BN254_FIELD - pr.pi_a[2],
                     pr.pi_b[1][2], pr.pi_b[1][1], pr.pi_b[2][2], pr.pi_b[2][1],
                     pr.pi_c[1], pr.pi_c[2]>>
    IN  /\ Len(cout.solana.proofA) = 2 * FieldBytes
        /\ Len(cout.solana.proofB) = 4 * FieldBytes
        /\ Len(cout.solana.proofC) = 2 * FieldBytes
        /\ Len(OnChainBytes) = 8 * FieldBytes
        /\ \A k \in 1..8 :
             /\ Len(Slot(k)) = FieldBytes
             /\ \A i \in 1..FieldBytes : Slot(k)[i] \in 0..255
             /\ BigEndian(Slot(k)) = encoded[k]

\* A proof whose values need left padding (A.x = 1) and one that fills the
\* width (C.x = P - 1) have both been transcoded.
C6_Witness ==
  /\ ProofDone
  /\ cin.proof.pi_a[1] = 1
  /\ cin.proof.pi_c[1] = BN254_FIELD - 1
  /\ Slot(1)[1] = 0
  /\ Slot(7)[1] # 0

\* C7: A.x is at bytes 0-31; B's components are swapped within each pair
\* (B[0][1], B[0][0], B[1][1], B[1][0] at 64-191); C.x and C.y follow at
\* 192-255, C.y not negated.
C7_Layout ==
  ProofDone =>
    LET pr == cin.proof
    IN  /\ Slot(1) = FieldEncoding(pr.pi_a[1])
        /\ Slot(3) = FieldEncoding(pr.pi_b[1][2])
        /\ Slot(4) = FieldEncoding(pr.pi_b[1][1])
        /\ Slot(5) = FieldEncoding(pr.pi_b[2][2])
        /\ Slot(6) = FieldEncoding(pr.pi_b[2][1])
        /\ Slot(7) = FieldEncoding(pr.pi_c[1])
        /\ Slot(8) = FieldEncoding(pr.pi_c[2])

\* A transcoded proof whose B components all differ and whose C.y differs from
\* its negation, so a swap or a negation would show.
C7_Witness ==
  /\ ProofDone
  /\ cin.proof.pi_b = <<<<4097, 258>>, <<BN254_FIELD - 2, 7>>>>
  /\ cin.proof.pi_c = <<11, 13>>
  /\ Slot(3) # Slot(4)
  /\ Slot(5) # Slot(6)

LowerHexChars == {HexDigits[d] : d \in 1..16}

\* hex is the lowercase hex spelling of bytes: two characters per byte.
SpellsBytes(hex, bytes) ==
  /\ Len(hex) = 2 * Len(bytes)
  /\ \A i \in 1..Len(hex) : hex[i] \in LowerHexChars
  /\ \A i \in 1..Len(bytes) :
       16 * HexVal(hex[2 * i - 1]) + HexVal(hex[2 * i]) = bytes[i]

\* C8: the hex encoding returned by generateProof is lowercase hex that decodes
\* to exactly the bytes of the on-chain encoding of the same call, component
\* by component.
C8_HexRoundTrip ==
  ProofDone =>
    /\ SpellsBytes(cout.hex.proofA, cout.solana.proofA)
    /\ SpellsBytes(cout.hex.proofB, cout.solana.proofB)
    /\ SpellsBytes(cout.hex.proofC, cout.solana.proofC)

\* Both encodings of a proof with letters in its hex (A.y = 255 negates to
\* P - 255) have been returned.
C8_Witness ==
  /\ ProofDone
  /\ cin.proof.pi_a[2] = 255
  /\ Len(cout.hex.proofA) = 4 * FieldBytes
  /\ \E i \in 1..Len(cout.hex.proofA) :
       cout.hex.proofA[i] \in {"a", "b", "c", "d", "e", "f"}

\* C9: answerToField is total: for every answer, the empty string and answers
\* longer than a field value included, it returns without error the UTF-8
\* bytes read big-endian, mod P, a value in [0, P).
C9_AnswerToFieldTotal ==
  WitnessDone =>
    /\ "input" \in DOMAIN cout
    /\ cout.input.answer = BigEndian(cin.answer) % BN254_FIELD
    /\ cout.input.answer \in 0..(BN254_FIELD - 1)

\* C10: the answer_hash handed to the prover is the digest read big-endian and
\* reduced mod P, so always in [0, P), also for a digest at or above P.
C10_DigestReduced ==
  (WitnessDone /\ "input" \in DOMAIN cout) =>
    /\ cout.input.answer_hash = BigEndian(cin.answerHash) % BN254_FIELD
    /\ cout.input.answer_hash \in 0..(BN254_FIELD - 1)

\* Width in bytes of the low part of a public key (16 in the source).
LoBytes == FieldBytes - (FieldBytes \div 2)

\* C11: hi is the leading half of the public key and lo the rest, each read
\* big-endian; both are below 256^LoBytes (2^128 in the source) and so below
\* P; hi * 256^LoBytes + lo is the key read big-endian; no other public key
\* yields the same (lo, hi) pair.
C11_PubkeySplitInjective ==
  (WitnessDone /\ "input" \in DOMAIN cout) =>
    LET lo == cout.input.pubkey_lo
        hi == cout.input.pubkey_hi
    IN  /\ hi = BigEndian(SubSeq(cin.pubkey, 1, FieldBytes \div 2))
        /\ lo = BigEndian(SubSeq(cin.pubkey, (FieldBytes \div 2) + 1, FieldBytes))
        /\ lo \in 0..(Pow256(LoBytes) - 1) /\ lo < BN254_FIELD
        /\ hi \in 0..(Pow256(LoBytes) - 1) /\ hi < BN254_FIELD
        /\ hi * Pow256(LoBytes) + lo = BigEndian(cin.pubkey)
        /\ \A k \in Pubkeys :
             pubkeyToCircuitInputs(k) = [lo |-> lo, hi |-> hi] => k = cin.pubkey

\* A public key whose two parts differ, one of them all 0xff, was split.
C11_Witness ==
  /\ WitnessDone /\ "input" \in DOMAIN cout
  /\ cin.pubkey[1] = 255 /\ cin.pubkey[FieldBytes] = 1
  /\ cout.input.pubkey_hi # cout.input.pubkey_lo

\* C12: hasAnswered returned false when the caller has no record, and
\* otherwise true exactly when the stored record's round is the current
\* round (a record of an earlier round gives false).
C12_HasAnsweredResult ==
  \A p \in Procs :
    LET c == att[p].check
    IN  c # Null =>
          /\ c.record = 0 => ~c.ret
          /\ c.record # 0 => (c.ret <=> c.record = c.round)

\* C13: when the fetch of the caller's record failed for another reason than
\* "not found", the attempt ended with an error and went on neither to prove
\* nor to submit.
C13_FetchErrorSurfaces ==
  \A p \in Procs :
    LET a == att[p]
    IN  (a.check # Null /\ a.check.fetch = "rpcError") =>
          /\ a.pc = "Done" /\ a.outcome = "error" /\ a.exit = 1
          /\ a.proved = 0 /\ a.sent = 0

\* C14: on the relay path a non-2xx answer of the relay, whatever its body,
\* ends the attempt with the relay submission error carrying the relay's
\* error message when the body holds one and the HTTP status otherwise; no
\* transaction id is produced and no reward extraction is attempted.
C14_RelayNon2xx ==
  \A p \in Procs :
    LET a == att[p]
    IN  (a.relayResp # Null /\ ~a.relayResp.ok) =>
          /\ a.pc = "Done" /\ a.outcome = "relayFailed" /\ a.exit = 1
          /\ a.carried = IF a.relayResp.body = "error"
                         THEN "relayMessage" ELSE "httpStatus"
          /\ a.txId = "" /\ ~a.confirmSeen /\ a.fetches = 0 /\ a.reward = Null

\* C15: on the relay path reward extraction is started only for a transaction
\* id whose confirmed or finalized status has been observed.
C15_RelayPolledBeforeReward ==
  \A p \in Procs :
    LET a == att[p]
    IN  (a.relay /\ a.txId # "" /\ (a.pc = "Reward" \/ a.fetches > 0)) =>
          a.confirmSeen

\* C19: reward extraction makes at most `retries` fetches and stops at the
\* first one that returns the transaction; when every fetch returned nothing
\* or threw, it fails with the transaction-not-indexed error, which reaches
\* its caller instead of a normal completion.
C19_RewardRetriesThenError ==
  \A p \in Procs :
    LET a == att[p]
    IN  /\ a.fetches <= FetchTries
        /\ a.tx # Null => a.pc = "Done"
        /\ (a.pc = "Done" /\ a.txId # "" /\ a.tx = Null) =>
             /\ a.fetches = FetchTries
             /\ a.rewardError = "notIndexed"

RECURSIVE SumToCaller(_)
\* The amounts of the nested native transfers to the caller, added up.
SumToCaller(inner) ==
  IF inner = <<>> THEN 0
  ELSE (IF inner[1].dest = "caller" THEN inner[1].lamports ELSE 0)
       + SumToCaller(Tail(inner))

\* C20: for a fetched transaction the reward amount is the sum of the nested
\* native transfers to the caller, transfers to other accounts add nothing,
\* and rewarded is true exactly when the sum is positive.
C20_RewardIsSumOfTransfers ==
  \A p \in Procs :
    LET a == att[p]
    IN  a.reward # Null =>
          /\ a.reward.amount = SumToCaller(a.tx.inner)
          /\ a.reward.rewarded <=> (SumToCaller(a.tx.inner) > 0)

\* -------------------------------------------- claims on pollConfirmation
\* C16: pollConfirmation returns successfully only when its last status query
\* reported confirmed or finalized with no error; when every query reported
\* no status or processed, it ends only by the timeout error, raised no
\* earlier than timeoutMs after the start and after at most one query per
\* interval of the timeout (2 queries for a timeout of 2 intervals).
C16_PollReturnsOnlyConfirmed ==
  /\ poll.result = "ok" =>
       /\ poll.last # Null /\ poll.last # NoReport
       /\ poll.last.err = ""
       /\ poll.last.confirmationStatus \in {"confirmed", "finalized"}
  /\ (poll.pc = "Done" /\ poll.reports \subseteq {"absent", "processed"}) =>
       poll.result = "timeout"
  /\ poll.reports \subseteq {"absent", "processed"} =>
       (poll.queries - 1) * poll.intervalMs < poll.timeoutMs \/ poll.queries = 0
  /\ poll.result = "timeout" =>
       /\ poll.endAt - poll.start >= poll.timeoutMs
       /\ poll.queries * poll.intervalMs < poll.timeoutMs + poll.intervalMs

\* A call with a timeout of two intervals saw no confirmed status in two
\* queries and raised the timeout two intervals after its start.
C16_Witness ==
  /\ poll.result = "timeout"
  /\ poll.timeoutMs = 2 * poll.intervalMs
  /\ poll.queries = 2
  /\ poll.reports \subseteq {"absent", "processed"}
  /\ poll.endAt = poll.start + poll.timeoutMs

\* C17: for a transaction that became confirmed, without error, after the
\* start and before the timeout elapsed, pollConfirmation (its timers and
\* queries taking no extra time) returns successfully within one interval of
\* that moment and never raises the timeout error.
C17_ConfirmedInWindowReturns ==
  (/\ poll.pc = "Done" /\ poll.slack = 0
   /\ poll.reports \subseteq {"absent", "processed", "confirmed", "finalized"}
   /\ txStatus.err = ""
   /\ txStatus.confirmedAt >= poll.start
   /\ txStatus.confirmedAt - poll.start < poll.timeoutMs
   /\ txStatus.confirmedAt <= poll.endAt) =>
     /\ poll.result = "ok"
     /\ poll.endAt - txStatus.confirmedAt <= poll.intervalMs

\* C18: a status query that reported an execution error ended the call at
\* that query with the execution error carrying the reported details, with
\* no sleep and no query after it (one sleep per earlier query), also when
\* the same status was confirmed or finalized.
C18_ExecErrorImmediate ==
  (poll.last # Null /\ poll.last # NoReport /\ poll.last.err # "") =>
    /\ poll.pc = "Done"
    /\ poll.result = "execError"
    /\ poll.error = poll.last.err
    /\ poll.sleeps = poll.queries - 1

\* A query reported an error on a confirmed transaction, before the timeout
\* had elapsed, after an earlier query that reported nothing.
C18_Witness ==
  /\ poll.result = "execError"
  /\ poll.last.confirmationStatus = "confirmed"
  /\ poll.error = "InstructionError"
  /\ poll.queries = 2
  /\ poll.endAt - poll.start < poll.timeoutMs

\* ---------------------------------------------- claims on error reporting
\* C21: a numeric custom code 6000..6008 found in a submission error maps to
\* the name the program's error table gives that code, two different codes
\* never to the same name, and a numeric code outside 6000..6008 to no name.
C21_CustomCodeToSymbol ==
  (cin.kind = "error" /\ cout # Null /\ cin.err.code = "" /\ cin.err.custom # -1) =>
    LET n == cin.err.custom
    IN  /\ n \in 6000..6008 =>
             /\ \E i \in 1..Len(IdlErrors) :
                  IdlErrors[i].code = n /\ cout.code = IdlErrors[i].name
             /\ \A m \in 6000..6008 :
                  anchorErrorCode(CustomErr(m)) = cout.code => m = n
        /\ n \notin 6000..6008 => cout.code = ""

\* A raw error holding the custom code 6002 in its text was mapped to
\* deadlineExpired.
C21_Witness ==
  /\ cin.kind = "error" /\ cout # Null
  /\ cin.err = CustomErr(6002)
  /\ cout.code = "deadlineExpired"

\* C22: a submission the program rejected with one of its custom errors ends
\* the attempt with that error's own kind as the outcome, never with the
\* generic submission failure.
C22_KindsPreserved ==
  \A p \in Procs :
    LET a == att[p]
    IN  (a.pc = "Done" /\ a.failure \in {IdlErrors[i].name : i \in 1..Len(IdlErrors)}) =>
          /\ a.outcome = a.failure
          /\ a.outcome # "submitFailed"

\* C23: reading the quest state fails when the pool cannot be fetched; with a
\* pool that has no live question it returns a snapshot with active = FALSE
\* and no error; in every snapshot remainingSlots is
\* max(0, rewardCount - winnerCount), never negative, and expired holds exactly
\* when now >= deadline.
C23_QuestSnapshot ==
  (cin.kind = "pool" /\ cout # Null) =>
    /\ ~cin.fetched => ("thrown" \in DOMAIN cout /\ "quest" \notin DOMAIN cout)
    /\ cin.fetched =>
         /\ "quest" \in DOMAIN cout /\ "thrown" \notin DOMAIN cout
         /\ cout.quest.active = cin.pool.isActive
         /\ cout.quest.expired <=> (cin.now >= cin.pool.deadline)
         /\ cout.slots.remainingSlots >= 0
         /\ \/ /\ cin.pool.rewardCount >= cin.pool.winnerCount
               /\ cout.slots.remainingSlots = cin.pool.rewardCount - cin.pool.winnerCount
            \/ /\ cin.pool.rewardCount < cin.pool.winnerCount
               /\ cout.slots.remainingSlots = 0

\* A pool with no live question, more winners than slots and its deadline
\* exactly now was read: no error, active = FALSE, expired, no slot left.
C23_Witness ==
  /\ cin.kind = "pool" /\ cout # Null /\ cin.fetched
  /\ ~cin.pool.isActive
  /\ cin.pool.winnerCount > cin.pool.rewardCount
  /\ cin.now = cin.pool.deadline
  /\ ~cout.quest.active /\ cout.quest.expired /\ cout.slots.remainingSlots = 0

\* C24: once every generateProof call of the process has completed, by
\* success or by failure, console.log and console.error are the original
\* functions again.
C24_ConsoleRestored ==
  (\A c \in ProveCalls : prover[c].pc = "Done") => console = OriginalConsole

\* C25: of two attempts of the same wallet racing in one round, both past
\* the local already-answered check, the program accepts at most one; the
\* attempt whose submission the program rejected as already answered ends
\* with the on-chain already-answered error and never reaches reward
\* extraction.
C25_RaceLoserRejected ==
  /\ ~(att[1].txOk /\ att[2].txOk /\ att[1].quest.round = att[2].quest.round)
  /\ \A p \in Procs :
       LET a == att[p]
       IN  (a.failure = "alreadyAnswered" /\ a.check.fetch = "notFound") =>
             /\ a.pc = "Done"
             /\ a.outcome = "alreadyAnswered"
             /\ a.fetches = 0 /\ a.reward = Null

\* C26: over a sequence of runs, the proof a run dispatches is the one that
\* run generated, from that run's answer and the commitment of that run's
\* snapshot, and the transaction id handed to reward extraction is the one
\* that run's submission returned; nothing of an earlier run is used again.
C26_NoLeakBetweenAttempts ==
  LET a == att[1]
  IN  /\ a.pc = "Idle" \/ a.proof = NoProof \/
           /\ a.proof.attempt = attempts
           /\ a.proof.answer = a.answer
           /\ a.proof.answerHash = a.quest.answerHash
      /\ a.sent > 0 => a.proof # NoProof
      /\ a.txOf # 0 => a.txOf = attempts
      /\ (a.pc = "Reward" /\ a.txId = "tx") => a.txOf = attempts

\* A second run, in the round after the one the first run answered, has
\* dispatched its own proof and handed its own transaction to reward
\* extraction.
C26_Witness ==
  /\ attempts = 2
  /\ winnerRecord = 2 /\ pool.round = 2
  /\ att[1].pc = "Reward" /\ att[1].txOk
  /\ att[1].proof.attempt = 2 /\ att[1].txOf = 2

\* C27: the blocking loops can be cancelled by the caller: once the caller has
\* given the call up, the confirmation poller sends no further status query
\* and ends before its timeout.
C27_LoopsCancellable ==
  poll.abandonedAt >= 0 =>
    /\ poll.queries = poll.abandonedAt
    /\ poll.result # "timeout"

\* C28: an already-answered outcome is a short-circuit, not a failure,
\* however it is detected: found by the local AnswerRecord check or returned
\* by the program as error 6008, the run ends with a success exit status.
C28_AlreadyAnsweredNotFailure ==
  LET a == att[1]
  IN  (a.pc = "Done" /\ a.outcome = "alreadyAnswered") => a.exit = 0

\* C29: within one run, the round compared with the AnswerRecord in the
\* already-answered check is the round of the snapshot whose answerHash and
\* deadline are used for proving: a run that has started proving checked the
\* round number of its own quest snapshot.
C29_SameRoundSnapshot ==
  LET a == att[1]
  IN  a.proved > 0 => a.check.round = a.quest.round

\* C30: a submitted transaction whose execution failed on chain is never
\* reported as a correct answer: when the fetched transaction records an
\* execution error, the run does not end as rewarded or as "correct answer,
\* but no reward"; it ends in a failure.
C30_FailedTxNotCorrect ==
  \A p \in Procs :
    LET a == att[p]
    IN  (a.pc = "Done" /\ a.tx # Null /\ a.tx.err # "") =>
          /\ a.outcome \notin {"rewarded", "noReward"}
          /\ a.exit # 0

====
